---- MODULE Spec2Model ----
(***************************************************************************)
(* A model of the copper-wire thread pool (src/src/lib.rs): the two        *)
(* constructors, execute, the worker loop and Drop, with the mpsc channel, *)
(* the Arc<Mutex<Receiver>> and the join handles they use.                 *)
(***************************************************************************)
EXTENDS Naturals, Integers, Sequences, FiniteSets, TLC

\* ---------------------------------------------------------------- bounds
MaxThreads == 2      \* thread_count is drawn from 0..MaxThreads
MaxJobs == 3         \* at most this many jobs are sent on the channel
MaxTeardowns == 2    \* the teardown sequence is run at most this many times

Submitters == {"s1", "s2"}        \* the contexts that call execute

NoMsg == [tag |-> "None", job |-> 0]      \* `message` not yet assigned
ErrMsg == [tag |-> "Err", job |-> 0]      \* recv returned Err(RecvError)
OkMsg(j) == [tag |-> "Ok", job |-> j]     \* recv returned Ok(job)

WorkerIds == 0 .. (MaxThreads - 1)
JobIds == 1 .. MaxJobs

VARIABLES
    ctor,          \* which constructor was called: "none", "new", "build"
    thread_count,  \* the argument of the constructor
    result,        \* what the constructor gave: "none", "panic", "Err", "Ok"
    mainpc,        \* where the owner of the pool is
    id,            \* the constructor's loop variable
    workers,       \* ThreadPool.workers: a sequence of [id, thread]
    sender,        \* ThreadPool.sender: "Some" or "None"
    channel,       \* mpsc channel: [created, senders, receivers]
    queue,         \* the jobs in the channel, oldest first
    lockHolder,    \* the set of workers holding the MutexGuard<Receiver>
    poisoned,      \* the Mutex is poisoned: a thread panicked holding the guard
    wpc,           \* where each worker thread is
    message,       \* each worker's local `message`
    jobs,          \* the jobs sent so far: [submitter]
    execResult,    \* how the last execute call ended: "none", "Ok", "panic"
    dropIdx,       \* Drop's position in `for worker in &mut self.workers`
    teardowns,     \* how many times the teardown sequence was begun
    claimOrder,    \* history: job ids in the order recv returned them
    invoked,       \* history: how many times each job was called
    finished,      \* history: how many times each job returned
    lost,          \* history: jobs dropped with the Receiver, never run
    joinCount,     \* history: how many times each worker's thread was joined
    closeCount,    \* history: how many times a Sender was dropped
    dropResult     \* history: how each teardown ended: "done" or "aborted"

poolVars == <<workers, sender, channel, queue, lockHolder, poisoned, wpc, message>>
histVars == <<claimOrder, invoked, finished, lost, joinCount, closeCount, dropResult>>
ctorVars == <<ctor, thread_count, result, id>>
vars == <<ctor, thread_count, result, mainpc, id, workers, sender, channel,
          queue, lockHolder, poisoned, wpc, message, jobs, execResult, dropIdx, teardowns,
          claimOrder, invoked, finished, lost, joinCount, closeCount,
          dropResult>>

Init ==
    /\ ctor = "none"
    /\ thread_count = 0
    /\ result = "none"
    /\ mainpc = "start"
    /\ id = 0
    /\ workers = <<>>
    /\ sender = "None"
    /\ channel = [created |-> FALSE, senders |-> 0, receivers |-> 0]
    /\ queue = <<>>
    /\ lockHolder = {}
    /\ poisoned = FALSE
    /\ wpc = [w \in WorkerIds |-> "unspawned"]
    /\ message = [w \in WorkerIds |-> NoMsg]
    /\ jobs = <<>>
    /\ execResult = "none"
    /\ dropIdx = 0
    /\ teardowns = 0
    /\ claimOrder = <<>>
    /\ invoked = [j \in JobIds |-> 0]
    /\ finished = [j \in JobIds |-> 0]
    /\ lost = {}
    /\ joinCount = [w \in WorkerIds |-> 0]
    /\ closeCount = 0
    /\ dropResult = <<>>

\* ------------------------------------------------------------ helpers

\* `0..thread_count`, the range of the constructors' loops.
Range_short(n) == 0 .. (n - 2)
Range(n) == 0 .. (n - 1)

\* `assert!(thread_count > 0)` of new.
AssertHolds(n) == n > 0

\* `if thread_count <= 0` of build.
LessThanOne_never(n) == n < 0
LessThanOne(n) == n <= 0

\* mpsc::channel(): one Sender, one Receiver (held by one Arc), no message.
NewChannel == [created |-> TRUE, senders |-> 1, receivers |-> 1]

\* Worker { id, thread: Some(thread) }
Worker_new(i) == [id |-> i, thread |-> "Some"]

\* mpsc::channel() is unbounded: send never waits for room or for a receiver.
SendBlocks_bounded(q) == Len(q) >= 1
SendBlocks(q) == FALSE

\* Receiver::recv on a non-empty channel: the oldest message and the rest.
Pop_peek(q) == <<Head(q), q>>
Pop_newest(q) == <<q[Len(q)], SubSeq(q, 1, Len(q) - 1)>>
Pop(q) == <<Head(q), Tail(q)>>

\* Mutex::lock returns once no other thread holds the guard.
MutexFree_always(h) == TRUE
MutexFree(h) == h = {}

\* The guard of `receiver.lock().unwrap().recv()` is a temporary of the `let`
\* statement: it is dropped, and the Mutex unlocked, when recv has returned.
GuardAfterRecv_held(h, w) == h
GuardAfterRecv(h, w) == h \ {w}

\* Receiver::recv gives Err only when every Sender is dropped and no message
\* is left in the channel.
Disconnected_eager(ch, q) == ch.senders = 0
Disconnected(ch, q) == ch.senders = 0 /\ q = <<>>

\* drop(sender): the channel loses its only Sender.
CloseSender_skip(ch) == ch
CloseSender(ch) == [ch EXCEPT !.senders = @ - 1]

\* Option::take on worker i's thread handle: the field is left None.
TakeThread_remove(ws, i) == SubSeq(ws, 1, i - 1) \o SubSeq(ws, i + 1, Len(ws))
TakeThread_keep(ws, i) == ws
TakeThread(ws, i) == [ws EXCEPT ![i].thread = "None"]

\* JoinHandle::join blocks until the thread has ended ...
ThreadFinished_nowait(st) == TRUE
ThreadFinished(st) == st \in {"stopped", "panicked"}

\* ... and gives Err when the thread panicked, Ok otherwise.
JoinResult_ignore(st) == "Ok"
JoinResult(st) == IF st = "panicked" THEN "Err" ELSE "Ok"

\* The pool value exists (a constructor returned it).
PoolExists == mainpc \in {"live", "drop_loop", "join", "done", "aborted"}

\* ------------------------------------------------------- constructors

\* ThreadPool::new up to the loop: the assert, then the channel, Arc and Vec.
NewBegin(n) ==
    /\ mainpc = "start"
    /\ ctor' = "new"
    /\ thread_count' = n
    /\ id' = 0
    /\ IF AssertHolds(n)
       THEN /\ channel' = NewChannel
            /\ mainpc' = "new_loop"
            /\ result' = result
       ELSE /\ channel' = channel
            /\ mainpc' = "ctor_failed"
            /\ result' = "panic"
    /\ UNCHANGED <<workers, sender, queue, lockHolder, poisoned, wpc, message, jobs, execResult,
                   dropIdx, teardowns, histVars>>

\* One iteration of new's loop: workers.push(Worker::new(id, Arc::clone(..))).
\* The spawned thread starts at the top of its loop.
NewSpawn ==
    /\ mainpc = "new_loop"
    /\ id \in Range(thread_count)
    /\ workers' = Append(workers, Worker_new(id))
    /\ wpc' = [wpc EXCEPT ![id] = "lock"]
    /\ channel' = [channel EXCEPT !.receivers = @ + 1]
    /\ id' = id + 1
    /\ UNCHANGED <<ctor, thread_count, result, mainpc, sender, queue, lockHolder, poisoned,
                   message, jobs, execResult, dropIdx, teardowns, histVars>>

\* new returns ThreadPool { workers, sender: Some(sender) }; its own Arc of
\* the receiver goes out of scope.
NewReturn ==
    /\ mainpc = "new_loop"
    /\ id \notin Range(thread_count)
    /\ sender' = "Some"
    /\ channel' = [channel EXCEPT !.receivers = @ - 1]
    /\ result' = "Ok"
    /\ mainpc' = "live"
    /\ UNCHANGED <<ctor, thread_count, id, workers, queue, lockHolder, poisoned, wpc,
                   message, jobs, execResult, dropIdx, teardowns, histVars>>

\* ThreadPool::build up to the loop: the check, then the channel, Arc and Vec.
BuildBegin(n) ==
    /\ mainpc = "start"
    /\ ctor' = "build"
    /\ thread_count' = n
    /\ id' = 0
    /\ IF LessThanOne(n)
       THEN /\ channel' = channel
            /\ mainpc' = "ctor_failed"
            /\ result' = "Err"
       ELSE /\ channel' = NewChannel
            /\ mainpc' = "build_loop"
            /\ result' = result
    /\ UNCHANGED <<workers, sender, queue, lockHolder, poisoned, wpc, message, jobs, execResult,
                   dropIdx, teardowns, histVars>>

BuildSpawn_zero_id ==
    /\ mainpc = "build_loop"
    /\ id \in Range(thread_count)
    /\ workers' = Append(workers, Worker_new(0))
    /\ wpc' = [wpc EXCEPT ![id] = "lock"]
    /\ channel' = [channel EXCEPT !.receivers = @ + 1]
    /\ id' = id + 1
    /\ UNCHANGED <<ctor, thread_count, result, mainpc, sender, queue, lockHolder,
                   poisoned, message, jobs, execResult, dropIdx, teardowns, histVars>>

\* One iteration of build's loop.
BuildSpawn ==
    /\ mainpc = "build_loop"
    /\ id \in Range(thread_count)
    /\ workers' = Append(workers, Worker_new(id))
    /\ wpc' = [wpc EXCEPT ![id] = "lock"]
    /\ channel' = [channel EXCEPT !.receivers = @ + 1]
    /\ id' = id + 1
    /\ UNCHANGED <<ctor, thread_count, result, mainpc, sender, queue, lockHolder, poisoned,
                   message, jobs, execResult, dropIdx, teardowns, histVars>>

\* build returns Ok(ThreadPool { workers, sender: Some(sender) }).
BuildReturn ==
    /\ mainpc = "build_loop"
    /\ id \notin Range(thread_count)
    /\ sender' = "Some"
    /\ channel' = [channel EXCEPT !.receivers = @ - 1]
    /\ result' = "Ok"
    /\ mainpc' = "live"
    /\ UNCHANGED <<ctor, thread_count, id, workers, queue, lockHolder, poisoned, wpc,
                   message, jobs, execResult, dropIdx, teardowns, histVars>>

\* ------------------------------------------------------------ execute

\* execute, both unwraps passing: the boxed job is appended to the channel.
ExecuteOk(s) ==
    /\ PoolExists
    /\ sender = "Some"
    /\ channel.receivers > 0
    /\ ~SendBlocks(queue)
    /\ Len(jobs) < MaxJobs
    /\ jobs' = Append(jobs, [submitter |-> s])
    /\ queue' = Append(queue, Len(jobs) + 1)
    /\ execResult' = "Ok"
    /\ UNCHANGED <<ctorVars, mainpc, workers, sender, channel, lockHolder, poisoned, wpc,
                   message, dropIdx, teardowns, histVars>>

\* execute panicking: sender is None (as_ref().unwrap()), or send gives
\* Err because the Receiver is gone (send(job).unwrap()).
ExecuteFail(s) ==
    /\ PoolExists
    /\ \/ sender = "None"
       \/ sender = "Some" /\ channel.receivers = 0
    /\ execResult' = "panic"
    /\ UNCHANGED <<ctorVars, mainpc, poolVars, jobs, dropIdx, teardowns, histVars>>

\* ------------------------------------------------------------- worker

ThreadEnds_leak ==
    UNCHANGED <<channel, queue, lost>>

\* The thread's closure ends (by break or by unwinding): its Arc of the
\* receiver is dropped, and with the last Arc the Receiver and the jobs
\* still in the channel.
ThreadEnds ==
    /\ channel' = [channel EXCEPT !.receivers = @ - 1]
    /\ IF channel.receivers = 1
       THEN /\ queue' = <<>>
            /\ lost' = lost \cup {queue[i] : i \in 1 .. Len(queue)}
       ELSE /\ queue' = queue
            /\ lost' = lost

\* receiver.lock().unwrap(): the worker gets the MutexGuard once the Mutex is
\* free. On a poisoned Mutex lock() gives Err, and unwrap panics: the thread
\* ends.
Lock(w) ==
    /\ wpc[w] = "lock"
    /\ MutexFree(lockHolder)
    /\ IF poisoned
       THEN /\ wpc' = [wpc EXCEPT ![w] = "panicked"]
            /\ lockHolder' = lockHolder
            /\ ThreadEnds
       ELSE /\ wpc' = [wpc EXCEPT ![w] = "recv"]
            /\ lockHolder' = lockHolder \cup {w}
            /\ UNCHANGED <<channel, queue, lost>>
    /\ UNCHANGED <<ctorVars, mainpc, workers, sender, poisoned, message, jobs,
                   execResult, dropIdx, teardowns, claimOrder, invoked, finished,
                   joinCount, closeCount, dropResult>>

\* .recv() returns Ok(job): the oldest job leaves the channel; the guard, a
\* temporary of the `let`, is dropped at the end of the statement.
RecvOk(w) ==
    /\ wpc[w] = "recv"
    /\ w \in lockHolder
    /\ queue # <<>>
    /\ message' = [message EXCEPT ![w] = OkMsg(Pop(queue)[1])]
    /\ queue' = Pop(queue)[2]
    /\ claimOrder' = Append(claimOrder, Pop(queue)[1])
    /\ lockHolder' = GuardAfterRecv(lockHolder, w)
    /\ wpc' = [wpc EXCEPT ![w] = "match"]
    /\ UNCHANGED <<ctorVars, mainpc, workers, sender, channel, poisoned, jobs, execResult, dropIdx,
                   teardowns, invoked, finished, lost, joinCount, closeCount,
                   dropResult>>

\* .recv() returns Err: the channel is empty and every Sender is dropped.
RecvErr(w) ==
    /\ wpc[w] = "recv"
    /\ w \in lockHolder
    /\ Disconnected(channel, queue)
    /\ message' = [message EXCEPT ![w] = ErrMsg]
    /\ lockHolder' = GuardAfterRecv(lockHolder, w)
    /\ wpc' = [wpc EXCEPT ![w] = "match"]
    /\ UNCHANGED <<ctorVars, mainpc, workers, sender, channel, queue, poisoned, jobs, execResult,
                   dropIdx, teardowns, histVars>>

\* Ok(job) => { println!; job(); }: the job is called.
MatchOk(w) ==
    /\ wpc[w] = "match"
    /\ message[w].tag = "Ok"
    /\ invoked' = [invoked EXCEPT ![message[w].job] = @ + 1]
    /\ wpc' = [wpc EXCEPT ![w] = "exec"]
    /\ UNCHANGED <<ctorVars, mainpc, workers, sender, channel, queue, lockHolder, poisoned,
                   message, jobs, execResult, dropIdx, teardowns, claimOrder, finished,
                   lost, joinCount, closeCount, dropResult>>

\* Err(_) => { println!; break; }: the loop and the thread end.
MatchErr(w) ==
    /\ wpc[w] = "match"
    /\ message[w].tag = "Err"
    /\ wpc' = [wpc EXCEPT ![w] = "stopped"]
    /\ ThreadEnds
    /\ UNCHANGED <<ctorVars, mainpc, workers, sender, lockHolder, poisoned, message, jobs,
                   execResult, dropIdx, teardowns, claimOrder, invoked, finished,
                   joinCount, closeCount, dropResult>>

\* job() returns: the loop goes round. (A job is an arbitrary closure: when
\* it runs it either returns or panics.)
JobReturn(w) ==
    /\ wpc[w] = "exec"
    /\ finished' = [finished EXCEPT ![message[w].job] = @ + 1]
    /\ message' = [message EXCEPT ![w] = NoMsg]
    /\ wpc' = [wpc EXCEPT ![w] = "lock"]
    /\ UNCHANGED <<ctorVars, mainpc, workers, sender, channel, queue, lockHolder, poisoned,
                   jobs, execResult, dropIdx, teardowns, claimOrder, invoked, lost,
                   joinCount, closeCount, dropResult>>

\* job() panics: nothing in the loop catches it, the thread unwinds and ends.
\* Unwinding drops a guard the thread still holds, which poisons the Mutex.
JobPanic(w) ==
    /\ wpc[w] = "exec"
    /\ wpc' = [wpc EXCEPT ![w] = "panicked"]
    /\ lockHolder' = lockHolder \ {w}
    /\ poisoned' = (poisoned \/ w \in lockHolder)
    /\ ThreadEnds
    /\ UNCHANGED <<ctorVars, mainpc, workers, sender, message, jobs,
                   execResult, dropIdx, teardowns, claimOrder, invoked, finished,
                   joinCount, closeCount, dropResult>>

\* --------------------------------------------------------------- Drop

\* drop(self.sender.take()): a Some sender is dropped, which closes the
\* sending end; the field is left None. Then the loop over workers begins.
\* The sequence can be run again on a pool it has already torn down; after
\* a drop that panicked the owner is unwinding and runs nothing more.
DropBegin ==
    /\ mainpc \in {"live", "done"}
    /\ teardowns < MaxTeardowns
    /\ teardowns' = teardowns + 1
    /\ IF sender = "Some"
       THEN /\ channel' = CloseSender(channel)
            /\ closeCount' = closeCount + 1
       ELSE /\ channel' = channel
            /\ closeCount' = closeCount
    /\ sender' = "None"
    /\ dropIdx' = 1
    /\ mainpc' = "drop_loop"
    /\ UNCHANGED <<ctorVars, workers, queue, lockHolder, poisoned, wpc, message, jobs, execResult,
                   claimOrder, invoked, finished, lost, joinCount, dropResult>>

\* if let Some(thread) = worker.thread.take() { thread.join() ...
DropTakeSome ==
    /\ mainpc = "drop_loop"
    /\ dropIdx <= Len(workers)
    /\ workers[dropIdx].thread = "Some"
    /\ workers' = TakeThread(workers, dropIdx)
    /\ joinCount' = [joinCount EXCEPT ![workers[dropIdx].id] = @ + 1]
    /\ mainpc' = "join"
    /\ UNCHANGED <<ctorVars, sender, channel, queue, lockHolder, poisoned, wpc, message,
                   jobs, execResult, dropIdx, teardowns, claimOrder, invoked, finished,
                   lost, closeCount, dropResult>>

\* ... and when take() gives None the body is skipped.
DropTakeNone ==
    /\ mainpc = "drop_loop"
    /\ dropIdx <= Len(workers)
    /\ workers[dropIdx].thread = "None"
    /\ dropIdx' = dropIdx + 1
    /\ UNCHANGED <<ctorVars, mainpc, poolVars, jobs, execResult, teardowns, histVars>>

\* thread.join() returns Ok(()): unwrap passes, next worker.
JoinOk ==
    /\ mainpc = "join"
    /\ ThreadFinished(wpc[workers[dropIdx].id])
    /\ JoinResult(wpc[workers[dropIdx].id]) = "Ok"
    /\ dropIdx' = dropIdx + 1
    /\ mainpc' = "drop_loop"
    /\ UNCHANGED <<ctorVars, poolVars, jobs, execResult, teardowns, histVars>>

\* thread.join() returns Err (the thread panicked): unwrap panics and drop
\* is left by unwinding.
JoinErr ==
    /\ mainpc = "join"
    /\ ThreadFinished(wpc[workers[dropIdx].id])
    /\ JoinResult(wpc[workers[dropIdx].id]) = "Err"
    /\ mainpc' = "aborted"
    /\ dropResult' = Append(dropResult, "aborted")
    /\ UNCHANGED <<ctorVars, poolVars, jobs, execResult, dropIdx, teardowns, claimOrder,
                   invoked, finished, lost, joinCount, closeCount>>

\* The loop over workers is exhausted: drop returns.
DropReturn ==
    /\ mainpc = "drop_loop"
    /\ dropIdx > Len(workers)
    /\ mainpc' = "done"
    /\ dropResult' = Append(dropResult, "done")
    /\ UNCHANGED <<ctorVars, poolVars, jobs, execResult, dropIdx, teardowns, claimOrder,
                   invoked, finished, lost, joinCount, closeCount>>

\* ------------------------------------------------------ specification

Construct ==
    \/ \E n \in 0 .. MaxThreads : NewBegin(n)
    \/ \E n \in 0 .. MaxThreads : BuildBegin(n)
    \/ NewSpawn
    \/ NewReturn
    \/ BuildSpawn
    \/ BuildReturn

Submit ==
    \/ \E s \in Submitters : ExecuteOk(s)
    \/ \E s \in Submitters : ExecuteFail(s)

WorkerStep(w) ==
    \/ Lock(w)
    \/ RecvOk(w)
    \/ RecvErr(w)
    \/ MatchOk(w)
    \/ MatchErr(w)
    \/ JobReturn(w)
    \/ JobPanic(w)

Teardown ==
    \/ DropBegin
    \/ DropTakeSome
    \/ DropTakeNone
    \/ JoinOk
    \/ JoinErr
    \/ DropReturn

Next ==
    \/ Construct
    \/ Submit
    \/ \E w \in WorkerIds : WorkerStep(w)
    \/ Teardown

Spec == Init /\ [][Next]_vars

\* The scheduler runs every thread that can run: each worker thread, and the
\* owner inside a constructor or inside drop. When execute and drop are
\* called is up to the caller, so they carry no fairness.
FairSpec ==
    /\ Spec
    /\ \A w \in WorkerIds : WF_vars(WorkerStep(w))
    /\ WF_vars(NewSpawn \/ NewReturn \/ BuildSpawn \/ BuildReturn)
    /\ WF_vars(DropTakeSome \/ DropTakeNone \/ JoinOk \/ JoinErr \/ DropReturn)

\* ------------------------------------------------- derived predicates

Spawned == {w \in WorkerIds : wpc[w] # "unspawned"}
Submitted == 1 .. Len(jobs)
Claimed == {claimOrder[i] : i \in 1 .. Len(claimOrder)}
Queued == {queue[i] : i \in 1 .. Len(queue)}
ClaimPos(j) == CHOOSE i \in 1 .. Len(claimOrder) : claimOrder[i] = j
Waiting(w) == wpc[w] \in {"lock", "recv"}
Executing(w) == wpc[w] = "exec"
ThreadEnded(w) == wpc[w] \in {"stopped", "panicked"}
TeardownEnded == mainpc \in {"done", "aborted"}
Live == {w \in Spawned : ~ThreadEnded(w)}
Holding(w) == w \in lockHolder

\* ------------------------------------------------------------- claims

\* C1: for any jobs submitted before teardown and any interleaving of the
\* workers, once teardown is over (and every thread has ended) each submitted
\* job has been executed exactly once: none lost, none run twice.
C1_EveryJobOnceByTeardown ==
    (TeardownEnded /\ \A w \in Spawned : ThreadEnded(w))
        => \A j \in Submitted : invoked[j] = 1

\* C2: in the state where teardown has returned, every worker thread has
\* terminated and no job submitted before teardown is queued or unexecuted.
C2_TeardownReturned ==
    mainpc = "done" =>
        /\ Spawned = Range(thread_count)
        /\ \A w \in Spawned : wpc[w] = "stopped"
        /\ queue = <<>>
        /\ lost = {}
        /\ \A j \in Submitted : invoked[j] = 1 /\ finished[j] = 1

C2_Witness ==
    /\ mainpc = "done"
    /\ Len(workers) = 2
    /\ Len(jobs) = 3
    /\ Len(dropResult) = 1

\* C3: if job a is submitted before job b by the same submitter, then a is
\* claimed no later than b: whenever b has been claimed, a was claimed
\* earlier.
C3_ClaimOrder ==
    \A a, b \in Submitted :
        (a < b /\ jobs[a].submitter = jobs[b].submitter /\ b \in Claimed)
            => (a \in Claimed /\ ClaimPos(a) < ClaimPos(b))

C3_Witness ==
    /\ Len(workers) = 2
    /\ Len(jobs) = 3
    /\ jobs[1].submitter = jobs[3].submitter
    /\ jobs[1].submitter # jobs[2].submitter
    /\ message[0] = OkMsg(3)
    /\ message[1] = OkMsg(1)
    /\ Executing(1)
    /\ finished[2] = 1

\* C4: for n >= 1, right after either constructor returns the pool has
\* exactly n workers with ids 0..n-1, all live and waiting on the same
\* empty, open queue.
C4_Constructed ==
    (mainpc = "live" /\ jobs = <<>>) =>
        /\ ctor \in {"new", "build"}
        /\ result = "Ok"
        /\ thread_count >= 1
        /\ Len(workers) = thread_count
        /\ \A i \in 1 .. Len(workers) :
               workers[i].id = i - 1 /\ workers[i].thread = "Some"
        /\ Spawned = Range(thread_count)
        /\ \A w \in Spawned : Waiting(w)
        /\ queue = <<>>
        /\ sender = "Some"
        /\ channel = [created |-> TRUE, senders |-> 1, receivers |-> thread_count]

C4_Witness ==
    /\ mainpc = "live"
    /\ jobs = <<>>
    /\ ctor = "build"
    /\ thread_count = 2
    /\ wpc[0] = "lock"
    /\ wpc[1] = "recv"

\* C5: for thread count 0, new panics and build returns the LessThanOne
\* error; in both cases no worker is spawned and no queue is created.
C5_ZeroThreads ==
    (ctor # "none" /\ thread_count = 0) =>
        /\ mainpc = "ctor_failed"
        /\ ctor = "new" => result = "panic"
        /\ ctor = "build" => result = "Err"
        /\ workers = <<>>
        /\ Spawned = {}
        /\ ~channel.created
        /\ sender = "None"

C5_Witness ==
    /\ ctor = "build"
    /\ thread_count = 0
    /\ result = "Err"

\* C6: execute fails only if the sending end has been closed, that is only
\* during or after teardown; before teardown begins it always succeeds.
C6_ExecuteFailsOnlyAfterClose ==
    execResult = "panic" => teardowns > 0

\* C7: running the teardown sequence again on a torn-down pool joins no
\* worker thread again and closes no sender again; it changes nothing of the
\* pool, does not panic and does not wait in a join.
C7_SecondTeardownNoOp ==
    [][teardowns' >= 2 =>
         /\ UNCHANGED <<poolVars, jobs, joinCount, closeCount, invoked, finished>>
         /\ \A w \in WorkerIds : joinCount[w] <= 1
         /\ closeCount <= 1
         /\ mainpc' \notin {"join", "aborted"}]_vars

C7_Witness ==
    /\ teardowns = 2
    /\ mainpc = "done"
    /\ dropResult = <<"done", "done">>
    /\ Len(workers) = 2
    /\ Len(jobs) >= 1

\* C8: once teardown has closed the sending end, every worker eventually
\* sees the closed and empty queue and becomes Stopped, and teardown
\* completes (jobs terminate, scheduling is fair).
C8_TeardownCompletes ==
    (closeCount > 0) ~> (mainpc = "done" /\ \A w \in Spawned : wpc[w] = "stopped")

\* C9: while the pool is not torn down, each job submitted by execute is
\* eventually delivered to a worker, and delivered exactly once (fair
\* scheduling).
C9_DeliveredOnce ==
    /\ [](\A i, k \in 1 .. Len(claimOrder) : claimOrder[i] = claimOrder[k] => i = k)
    /\ \A j \in JobIds : (j \in Submitted) ~> (j \in Claimed \/ teardowns > 0)

\* C10: execute never waits for a worker: before teardown it is enabled
\* however many workers are Executing and however many jobs are queued, and
\* all it does is append the job at the tail of the queue; the workers, their
\* states and the jobs already queued are unchanged.
C10_ExecuteNeverBlocks ==
    /\ []((mainpc = "live" /\ Len(jobs) < MaxJobs) => ENABLED Submit)
    /\ [][jobs' # jobs =>
            /\ \E s \in Submitters : jobs' = Append(jobs, [submitter |-> s])
            /\ queue' = Append(queue, Len(jobs'))
            /\ UNCHANGED <<workers, wpc, message, lockHolder, poisoned, sender, channel,
                           mainpc, claimOrder, invoked, finished, lost>>]_vars

C10_Witness ==
    /\ mainpc = "live"
    /\ Len(workers) = 2
    /\ \A w \in Spawned : Executing(w)
    /\ Len(queue) = 1
    /\ queue[1] = 3
    /\ execResult = "Ok"

\* C11: a panic inside a job is not handled by the pool. It ends only the
\* thread of the worker that ran the job, so one worker fewer is live; the
\* other workers are untouched, the jobs still queued stay in the channel for
\* them, the Mutex is left neither held nor poisoned, and nothing of the
\* pool value changes.
C11_JobFaultKillsOneWorker ==
    /\ [](~poisoned /\ \A w \in Spawned : wpc[w] = "panicked" => ~Holding(w))
    /\ [][\A w \in WorkerIds :
            (wpc'[w] = "panicked" /\ wpc[w] # "panicked") =>
                /\ wpc[w] = "exec"
                /\ \A v \in WorkerIds \ {w} : wpc'[v] = wpc[v]
                /\ Live' = Live \ {w}
                /\ Cardinality(Live') = Cardinality(Live) - 1
                /\ Live' # {} => (queue' = queue /\ lost' = lost)
                /\ UNCHANGED <<workers, sender, mainpc, dropIdx, lockHolder,
                               poisoned, message, execResult, jobs>>]_vars

C11_Witness ==
    /\ Len(workers) = 2
    /\ wpc[0] = "panicked"
    /\ message[0] = OkMsg(1)
    /\ finished[2] = 1
    /\ Executing(1)
    /\ message[1] = OkMsg(3)

\* C12: every job is claimed by at most one worker and called at most once;
\* no two workers hold the same job, and a claimed job is out of the queue
\* from the step that claims it.
C12_ClaimedAtMostOnce ==
    /\ \A i, k \in 1 .. Len(claimOrder) : claimOrder[i] = claimOrder[k] => i = k
    /\ \A j \in JobIds : invoked[j] <= 1
    /\ Claimed \cap Queued = {}
    /\ Submitted = Claimed \cup Queued \cup lost
    /\ \A w, v \in Spawned :
           (w # v /\ message[w].tag = "Ok" /\ message[v].tag = "Ok")
               => message[w].job # message[v].job

C12_Witness ==
    /\ Len(workers) = 2
    /\ message[0].tag = "Ok"
    /\ message[1].tag = "Ok"
    /\ invoked[message[0].job] = 1
    /\ invoked[message[1].job] = 1
    /\ queue # <<>>

\* C13: a worker becomes Stopped only from a receive that reported the
\* sending end closed and the queue empty. While jobs are queued the receive
\* gives a job, never Err, also after closure; and Stopped is final.
C13_StopOnlyClosedAndEmpty ==
    /\ [](\A w \in Spawned :
            /\ message[w] = ErrMsg => (channel.senders = 0 /\ queue = <<>>)
            /\ wpc[w] = "stopped" =>
                   /\ message[w] = ErrMsg
                   /\ lost = {}
                   /\ Submitted = Claimed
            /\ (wpc[w] = "recv" /\ Holding(w) /\ queue # <<>>) =>
                   (ENABLED RecvOk(w) /\ ~ENABLED RecvErr(w)))
    /\ [][\A w \in WorkerIds :
            /\ (wpc'[w] = "stopped" /\ wpc[w] # "stopped") =>
                   (wpc[w] = "match" /\ message[w] = ErrMsg)
            /\ wpc[w] = "stopped" =>
                   (wpc'[w] = "stopped" /\ message'[w] = message[w])]_vars

C13_Witness ==
    /\ wpc[0] = "stopped"
    /\ Executing(1)
    /\ message[1] = OkMsg(3)
    /\ finished[1] = 1
    /\ finished[2] = 1

\* C14: teardown closes the sending end before it joins any worker, and
\* joins the workers one by one in construction order; a worker stops only
\* after the sender was closed.
C14_CloseThenJoinInOrder ==
    /\ \A w \in WorkerIds :
           joinCount[w] > 0 =>
               (closeCount > 0 /\ sender = "None" /\ channel.senders = 0)
    /\ \A i, k \in 1 .. Len(workers) :
           (i < k /\ joinCount[workers[k].id] > 0) =>
               (joinCount[workers[i].id] > 0 /\ wpc[workers[i].id] = "stopped")
    /\ \A w \in Spawned : wpc[w] = "stopped" => closeCount > 0

C14_Witness ==
    /\ mainpc = "join"
    /\ dropIdx = 2
    /\ joinCount[0] = 1
    /\ joinCount[1] = 1
    /\ Executing(1)

\* C15: at most one worker holds the receiver's lock, and only the holder is
\* inside recv; other idle workers wait for the lock.
C15_ReceiveMutex ==
    /\ Cardinality(lockHolder) <= 1
    /\ Cardinality({w \in Spawned : wpc[w] = "recv"}) <= 1
    /\ \A w \in Spawned : wpc[w] = "recv" <=> Holding(w)

C15_Witness ==
    /\ wpc[0] = "recv"
    /\ Holding(0)
    /\ wpc[1] = "lock"
    /\ mainpc = "live"

\* C16: a worker holds no lock while it runs a job, so an idle worker can
\* take the lock meanwhile; a later job can finish while an earlier one is
\* still running.
C16_NoLockWhileExecuting ==
    \A w \in Spawned :
        /\ wpc[w] \in {"match", "exec"} => ~Holding(w)
        /\ Executing(w) =>
               \A v \in Spawned :
                   (wpc[v] = "lock" /\ \A u \in Spawned : wpc[u] # "recv")
                       => ENABLED Lock(v)

C16_Witness ==
    /\ \E w \in Spawned : Executing(w) /\ message[w] = OkMsg(1)
    /\ finished[1] = 0
    /\ finished[2] = 1

\* C17: a join that gives Err is fatal and not retried. If a worker's thread
\* ended by a fault inside a job, teardown does not return: it panics at the
\* join of the first such worker in the Vec, the workers after it are not
\* joined, and nothing is joined afterwards.
C17_JoinFaultAborts ==
    /\ [](mainpc = "done" => \A w \in Spawned : wpc[w] # "panicked")
    /\ [](mainpc = "aborted" =>
            /\ dropIdx \in 1 .. Len(workers)
            /\ wpc[workers[dropIdx].id] = "panicked"
            /\ joinCount[workers[dropIdx].id] = 1
            /\ \A i \in 1 .. (dropIdx - 1) : wpc[workers[i].id] = "stopped"
            /\ \A i \in (dropIdx + 1) .. Len(workers) :
                   joinCount[workers[i].id] = 0 /\ workers[i].thread = "Some"
            /\ dropResult[Len(dropResult)] = "aborted")
    /\ [][mainpc = "aborted" =>
            (mainpc' = "aborted"
             /\ UNCHANGED <<joinCount, dropIdx, workers, teardowns, dropResult>>)]_vars

C17_Witness ==
    /\ mainpc = "aborted"
    /\ Len(workers) = 2
    /\ dropIdx = 1
    /\ workers[2].thread = "Some"
    /\ wpc[1] = "stopped"

\* C18: when every worker thread has ended by a fault inside a job while the
\* pool is alive, the Receiver is gone: the jobs that were still queued are
\* never called, and execute can only panic, although teardown has not
\* begun.
AllWorkersFaulted ==
    /\ PoolExists
    /\ Spawned # {}
    /\ \A w \in Spawned : wpc[w] = "panicked"

C18_AllWorkersFaulted ==
    /\ \A j \in lost : invoked[j] = 0 /\ j \notin Claimed /\ j \notin Queued
    /\ AllWorkersFaulted =>
           /\ channel.receivers = 0
           /\ queue = <<>>
           /\ Submitted = Claimed \cup lost
    /\ (AllWorkersFaulted /\ mainpc = "live") =>
           /\ teardowns = 0
           /\ sender = "Some"
           /\ \A s \in Submitters : ENABLED ExecuteFail(s) /\ ~ENABLED ExecuteOk(s)

C18_Witness ==
    /\ mainpc = "live"
    /\ Len(workers) = 2
    /\ wpc[0] = "panicked"
    /\ wpc[1] = "panicked"
    /\ lost = {3}
    /\ execResult = "panic"

\* C19: at most n jobs run at once, each executing worker runs one job of its
\* own, and the pool's Vec of workers keeps the length n it was built with.
InFlight ==
    {j \in Submitted :
        /\ invoked[j] > finished[j]
        /\ ~\E w \in Spawned : wpc[w] = "panicked" /\ message[w] = OkMsg(j)}

C19_BoundedConcurrency ==
    /\ Cardinality({w \in Spawned : Executing(w)}) <= thread_count
    /\ Cardinality(InFlight) <= thread_count
    /\ InFlight = {message[w].job : w \in {v \in Spawned : Executing(v)}}
    /\ Cardinality(InFlight) = Cardinality({w \in Spawned : Executing(w)})
    /\ PoolExists => Len(workers) = thread_count

C19_Witness ==
    /\ mainpc = "join"
    /\ thread_count = 2
    /\ \A w \in Spawned : Executing(w)
    /\ Cardinality(InFlight) = 2
    /\ queue # <<>>

\* C20: for n >= 1 new(n) and build(n) go through the same states: after k
\* iterations of the loop, and at the return, the pool is the same function
\* of n and k whichever constructor runs (same worker ids, same open empty
\* queue, sender present), and nothing after the return touches what the
\* constructor recorded.
WorkersUpTo(k) == [i \in 1 .. k |-> [id |-> i - 1, thread |-> "Some"]]

C20_ConstructorsAgree ==
    /\ [](mainpc \in {"new_loop", "build_loop"} =>
            /\ (mainpc = "new_loop") <=> (ctor = "new")
            /\ (mainpc = "build_loop") <=> (ctor = "build")
            /\ thread_count >= 1
            /\ id <= thread_count
            /\ workers = WorkersUpTo(id)
            /\ Spawned = Range(id)
            /\ \A w \in Spawned : Waiting(w)
            /\ channel = [created |-> TRUE, senders |-> 1, receivers |-> id + 1]
            /\ queue = <<>>)
    /\ []((mainpc = "live" /\ jobs = <<>>) =>
            /\ result = "Ok"
            /\ workers = WorkersUpTo(thread_count)
            /\ Spawned = Range(thread_count)
            /\ \A w \in Spawned : Waiting(w)
            /\ sender = "Some"
            /\ channel = [created |-> TRUE, senders |-> 1, receivers |-> thread_count]
            /\ queue = <<>>)
    /\ [][PoolExists => UNCHANGED ctorVars]_vars

C20_Witness ==
    /\ ctor = "new"
    /\ mainpc = "live"
    /\ thread_count = 2
    /\ jobs = <<>>
    /\ wpc[0] = "recv"
    /\ wpc[1] = "lock"

====
